---- MODULE Spec2Model ----
(***************************************************************************)
(* Model of httpie/src/main.rs: a command-line HTTP client with the two    *)
(* subcommands get and post.  Strings are sequences of one-character       *)
(* strings so that split('=') and URL scheme scanning are computed the way *)
(* the code computes them.                                                 *)
(***************************************************************************)
EXTENDS Integers, Sequences, FiniteSets, TLC

\* ---------------------------------------------------------------- bounds
MaxLen == 5
MaxBody == 2
MaxHeaders == 2

\* ------------------------------------------------------- string helpers
RECURSIVE StringsUpTo(_, _)
StringsUpTo(chars, n) ==
    IF n = 0 THEN {<<>>}
    ELSE LET shorter == StringsUpTo(chars, n - 1)
         IN  shorter \cup {Append(t, c) : t \in {u \in shorter : Len(u) = n - 1}, c \in chars}

RECURSIVE SeqsUpTo(_, _)
SeqsUpTo(S, n) ==
    IF n = 0 THEN {<<>>}
    ELSE LET shorter == SeqsUpTo(S, n - 1)
         IN  shorter \cup {Append(t, x) : t \in {u \in shorter : Len(u) = n - 1}, x \in S}

Contains(s, c) == \E i \in 1..Len(s) : s[i] = c

FirstIndex(s, c) == CHOOSE i \in 1..Len(s) : s[i] = c /\ \A j \in 1..(i - 1) : s[j] # c

\* str::split(pat): the pieces between occurrences of pat; always at least
\* one piece, the whole string when pat does not occur.
RECURSIVE split(_, _)
split(s, c) ==
    IF ~Contains(s, c) THEN <<s>>
    ELSE LET i == FirstIndex(s, c)
         IN  <<SubSeq(s, 1, i - 1)>> \o split(SubSeq(s, i + 1, Len(s)), c)

\* ------------------------------------------------------------ KvPair
KvErr(s) == [ok |-> FALSE, err |-> "Failed to parse", input |-> s]

\* KvPair::from_str with a value that runs to the end of the token
from_str_split_once(s) ==
    LET it == split(s, "=")
    IN  IF Len(it) < 2 THEN KvErr(s)
        ELSE [ok |-> TRUE, k |-> it[1], v |-> SubSeq(s, Len(it[1]) + 2, Len(s))]

\* KvPair::from_str that rejects an empty key or value
from_str_non_empty(s) ==
    LET it == split(s, "=")
    IN  IF Len(it) < 2 \/ it[1] = <<>> \/ it[2] = <<>> THEN KvErr(s)
        ELSE [ok |-> TRUE, k |-> it[1], v |-> it[2]]

\* KvPair::from_str: first two items of the split iterator, each `?`
from_str(s) ==
    LET it == split(s, "=")
    IN  IF Len(it) < 1 THEN KvErr(s)
        ELSE IF Len(it) < 2 THEN KvErr(s)
        ELSE [ok |-> TRUE, k |-> it[1], v |-> it[2]]

parse_kv_pair(s) == from_str(s)

\* ------------------------------------------------------------ Url
IsAlpha(c) == c \in {"a", "A"}
IsDigit(c) == c \in {"1"}
IsSchemeChar(c) == IsAlpha(c) \/ IsDigit(c) \/ c \in {"+", "-", "."}
Lower(c) == IF c = "A" THEN "a" ELSE c
LowerStr(s) == [i \in 1..Len(s) |-> Lower(s[i])]

\* Url::parse without a base: scheme start state, scheme state; what follows
\* "scheme:" here is an opaque path, kept as written.  The serialization
\* lower-cases the scheme.
UrlParse(s) ==
    IF /\ Len(s) >= 1
       /\ IsAlpha(s[1])
       /\ Contains(s, ":")
       /\ \A j \in 1..(FirstIndex(s, ":") - 1) : IsSchemeChar(s[j])
    THEN LET i == FirstIndex(s, ":")
         IN  [ok |-> TRUE, url |-> LowerStr(SubSeq(s, 1, i)) \o SubSeq(s, i + 1, Len(s))]
    ELSE [ok |-> FALSE, err |-> "RelativeUrlWithoutBase"]

\* parse_url returning the parsed Url's serialization
parse_url_normalized(s) ==
    LET u == UrlParse(s)
    IN  IF u.ok THEN [ok |-> TRUE, url |-> u.url] ELSE [ok |-> FALSE, err |-> u.err]

\* parse_url: the parsed Url is dropped, the argument is returned
parse_url(s) ==
    LET u == UrlParse(s)
    IN  IF u.ok THEN [ok |-> TRUE, url |-> s] ELSE [ok |-> FALSE, err |-> u.err]

\* ------------------------------------------------------- Option / Result
None == <<>>
Some(x) == <<x>>
IsSome(o) == Len(o) = 1
Unwrap(o) == o[1]

\* ------------------------------------------------ command line (clap)
ArgUrls == {<<"a", ":", "1">>, <<"A", ":", "1">>, <<"1", "a">>}
ArgTokens == {<<"k", "=", "1">>, <<"k", "=", "2">>, <<"j", "=", "1">>, <<"k">>}
ArgvSet ==
    {[sub |-> f, url |-> <<>>, body |-> <<>>] : f \in {"--help", "--version", "delete"}}
    \cup {[sub |-> "get", url |-> u, body |-> b] : u \in ArgUrls, b \in SeqsUpTo(ArgTokens, 1)}
    \cup {[sub |-> "post", url |-> u, body |-> b] : u \in ArgUrls, b \in SeqsUpTo(ArgTokens, MaxBody)}

\* Opts::parse(): --help / --version print and exit 0; every other parse
\* failure (unknown subcommand, surplus argument, a value parser's Err)
\* is a clap error, exit code 2.
OptsParse(a) ==
    IF a.sub \in {"--help", "--version"} THEN [tag |-> "Display"]
    ELSE IF a.sub \notin {"get", "post"} THEN [tag |-> "Err", kind |-> "InvalidSubcommand"]
    ELSE IF ~parse_url(a.url).ok THEN [tag |-> "Err", kind |-> "ValueValidation"]
    ELSE IF a.sub = "get"
         THEN IF a.body # <<>> THEN [tag |-> "Err", kind |-> "UnknownArgument"]
              ELSE [tag |-> "Ok", subcmd |-> "Get", url |-> parse_url(a.url).url, body |-> <<>>]
    ELSE IF \E i \in 1..Len(a.body) : ~parse_kv_pair(a.body[i]).ok
         THEN [tag |-> "Err", kind |-> "ValueValidation"]
    ELSE [tag |-> "Ok", subcmd |-> "Post", url |-> parse_url(a.url).url,
          body |-> [i \in 1..Len(a.body) |->
                       [k |-> parse_kv_pair(a.body[i]).k, v |-> parse_kv_pair(a.body[i]).v]]]

ClapExitCode == 2
PanicExitCode == 101

\* main returning an Err whose exit status is dropped
main_exit_ignoring_err(r) == 0

\* fn main() -> Result<()>: exit status of the returned Result
main_exit(r) == IF r = "Ok" THEN 0 ELSE 1

\* match opts.subcmd that sends every command through get
dispatch_always_get(subcmd) == "get"

\* match opts.subcmd { Get => get(..), Post => post(..) }
dispatch(subcmd) == IF subcmd = "Get" THEN "get" ELSE "post"

\* ------------------------------------------------------ request body
EmptyMap == [x \in {} |-> <<>>]

\* HashMap insert that keeps an existing entry (entry().or_insert)
insert_keep_first(m, k, v) ==
    [x \in DOMAIN m \cup {k} |-> IF x \in DOMAIN m THEN m[x] ELSE v]

\* HashMap::insert: the new value replaces the old one
insert(m, k, v) ==
    [x \in DOMAIN m \cup {k} |-> IF x = k THEN v ELSE m[x]]

\* RequestBuilder::json(&HashMap<&String, &String>): an object whose
\* members are JSON strings
to_json(m) == [x \in DOMAIN m |-> [type |-> "string", s |-> m[x]]]

\* ---------------------------------------------------------- responses
Statuses == {200, 404, 500}
HeaderPool ==
    {[name |-> "content-type", value |-> [bytes |-> b, ascii |-> TRUE]] :
        b \in {"application/json", "text/html", "text/plain",
               "application/json; charset=utf-8", "garbage"}}
    \cup {[name |-> "server", value |-> [bytes |-> "nginx", ascii |-> TRUE]],
          [name |-> "x-bin", value |-> [bytes |-> "0xff", ascii |-> FALSE]]}
Responses ==
    {[status |-> st, headers |-> hs, bodyOk |-> ok, body |-> "payload"] :
        st \in Statuses, hs \in SeqsUpTo(HeaderPool, MaxHeaders), ok \in BOOLEAN}

is_client_error(st) == st >= 400 /\ st < 500
is_server_error(st) == st >= 500 /\ st < 600

\* print_status without the server-error branch
print_status_client_only(r) ==
    IF is_client_error(r.status)
    THEN [kind |-> "status", color |-> "red", version |-> FALSE, code |-> r.status, blank |-> FALSE]
    ELSE [kind |-> "status", color |-> "green", version |-> TRUE, code |-> r.status, blank |-> TRUE]

\* print_status: the line it prints
print_status(r) ==
    IF is_client_error(r.status)
    THEN [kind |-> "status", color |-> "red", version |-> FALSE, code |-> r.status, blank |-> FALSE]
    ELSE IF is_server_error(r.status)
    THEN [kind |-> "status", color |-> "red", version |-> FALSE, code |-> r.status, blank |-> FALSE]
    ELSE [kind |-> "status", color |-> "green", version |-> TRUE, code |-> r.status, blank |-> TRUE]

\* HeaderValue::to_str: Err unless every byte is visible ASCII
to_str(v) == IF v.ascii THEN [ok |-> TRUE, s |-> v.bytes] ELSE [ok |-> FALSE]

\* <Mime as FromStr>::from_str, on the header values of HeaderPool
MimeParse(s) ==
    IF s \in {"application/json", "text/html", "text/plain"}
    THEN [ok |-> TRUE, mime |-> [essence |-> s, params |-> ""]]
    ELSE IF s = "application/json; charset=utf-8"
    THEN [ok |-> TRUE, mime |-> [essence |-> "application/json", params |-> "charset=utf-8"]]
    ELSE [ok |-> FALSE]

APPLICATION_JSON == [essence |-> "application/json", params |-> ""]
TEXT_HTML == [essence |-> "text/html", params |-> ""]

\* HeaderMap::get(CONTENT_TYPE): the first value stored under the name
HeaderGet(hs, n) ==
    IF \E i \in 1..Len(hs) : hs[i].name = n
    THEN Some(hs[CHOOSE i \in 1..Len(hs) :
                    hs[i].name = n /\ \A j \in 1..(i - 1) : hs[j].name # n].value)
    ELSE None

\* get_content_type with .ok() in place of the unwraps
get_content_type_lenient(r) ==
    LET h == HeaderGet(r.headers, "content-type")
    IN  IF ~IsSome(h) THEN [panic |-> FALSE, mime |-> None]
        ELSE IF ~to_str(Unwrap(h)).ok THEN [panic |-> FALSE, mime |-> None]
        ELSE IF ~MimeParse(to_str(Unwrap(h)).s).ok THEN [panic |-> FALSE, mime |-> None]
        ELSE [panic |-> FALSE, mime |-> Some(MimeParse(to_str(Unwrap(h)).s).mime)]

\* get_content_type: both unwraps panic
get_content_type(r) ==
    LET h == HeaderGet(r.headers, "content-type")
    IN  IF ~IsSome(h) THEN [panic |-> FALSE, mime |-> None]
        ELSE IF ~to_str(Unwrap(h)).ok THEN [panic |-> TRUE, mime |-> None]
        ELSE IF ~MimeParse(to_str(Unwrap(h)).s).ok THEN [panic |-> TRUE, mime |-> None]
        ELSE [panic |-> FALSE, mime |-> Some(MimeParse(to_str(Unwrap(h)).s).mime)]

\* print_body: which printer the match selects
print_body(m, b) ==
    IF IsSome(m) /\ Unwrap(m) = APPLICATION_JSON THEN [kind |-> "body", render |-> "json", text |-> b]
    ELSE IF IsSome(m) /\ Unwrap(m) = TEXT_HTML THEN [kind |-> "body", render |-> "html", text |-> b]
    ELSE [kind |-> "body", render |-> "plain", text |-> b]

\* print_resp that reads and prints the body before the headers
print_resp_body_first(stage) ==
    CASE stage = "print_status" -> "get_content_type"
      [] stage = "get_content_type" -> "text"
      [] stage = "text" -> "print_body"
      [] stage = "print_body" -> "print_headers"
      [] stage = "print_headers" -> "return"

\* print_resp: the statement that follows each statement
print_resp_next(stage) ==
    CASE stage = "print_status" -> "print_headers"
      [] stage = "print_headers" -> "get_content_type"
      [] stage = "get_content_type" -> "text"
      [] stage = "text" -> "print_body"
      [] stage = "print_body" -> "return"

\* ---------------------------------------------------------------- state
VARIABLES
    pc,        \* the statement the process is at
    argv,      \* the command line
    opts,      \* Opts::parse()'s result
    client,    \* the reqwest Client, once built
    body,      \* post's HashMap
    bidx,      \* post's position in args.body
    requests,  \* the requests handed to send(), in order
    resp,      \* Option<Response>
    hidx,      \* print_headers' position in resp.headers()
    mime,      \* print_resp's local `mime`
    text,      \* print_resp's local `body`
    out,       \* what has been printed to stdout, in order
    exit,      \* the exit status, Running until the process ends
    input,     \* argument of the value parser under test
    parsed     \* Option of the value parser's result

vars == <<pc, argv, opts, client, body, bidx, requests, resp, hidx, mime, text, out, exit,
          input, parsed>>

Running == -1

progVars == <<argv, opts, client, body, bidx, requests, resp, hidx, mime, text, out, exit>>

ProgInit ==
    /\ opts = None
    /\ client = None
    /\ body = EmptyMap
    /\ bidx = 1
    /\ requests = <<>>
    /\ resp = None
    /\ hidx = 1
    /\ mime = None
    /\ text = None
    /\ out = <<>>
    /\ exit = Running

\* --------------------------------------------------------------- main
Init ==
    /\ pc = "start"
    /\ argv \in ArgvSet
    /\ ProgInit
    /\ input = <<>>
    /\ parsed = None

Terminate(code) ==
    /\ pc' = "exit"
    /\ exit' = code

\* line 195: Opts::parse()
ParseArgs ==
    /\ pc = "start"
    /\ LET o == OptsParse(argv)
       IN  /\ opts' = Some(o)
           /\ CASE o.tag = "Ok" -> /\ pc' = "build_client"
                                   /\ UNCHANGED <<out, exit>>
                [] o.tag = "Display" -> /\ Terminate(0)
                                        /\ out' = Append(out, [kind |-> "usage"])
                [] o.tag = "Err" -> /\ Terminate(ClapExitCode)
                                    /\ UNCHANGED out
    /\ UNCHANGED <<argv, client, body, bidx, requests, resp, hidx, mime, text, input, parsed>>

\* lines 196-204: default headers, Client::builder().build()?
\* The two header literals always parse; build() fails when the TLS backend
\* or the resolver cannot be initialised, and `?` returns the error.
BuildClient ==
    /\ pc = "build_client"
    /\ \E built \in BOOLEAN :
          IF built
          THEN /\ client' = Some([default_headers |-> {"x-powered-by", "user-agent"}])
               /\ pc' = "dispatch"
               /\ UNCHANGED exit
          ELSE /\ Terminate(main_exit("Err"))
               /\ UNCHANGED client
    /\ UNCHANGED <<argv, opts, body, bidx, requests, resp, hidx, mime, text, out, input, parsed>>

\* lines 205-208: match opts.subcmd
Dispatch ==
    /\ pc = "dispatch"
    /\ pc' = IF dispatch(Unwrap(opts).subcmd) = "get" THEN "get" ELSE "post"
    /\ UNCHANGED <<progVars, input, parsed>>

\* send().await?: a response, or a transport error returned by `?`
Send(method, json) ==
    /\ requests' = Append(requests, [method |-> method, url |-> Unwrap(opts).url, json |-> json])
    /\ \/ \E r \in Responses :
             /\ resp' = Some(r)
             /\ pc' = "print_status"
             /\ UNCHANGED exit
       \/ /\ Terminate(main_exit("Err"))
          /\ UNCHANGED resp

\* line 151
GetSend ==
    /\ pc = "get"
    /\ Send("GET", None)
    /\ UNCHANGED <<argv, opts, client, body, bidx, hidx, mime, text, out, input, parsed>>

\* lines 164-166, one iteration
PostInsert ==
    /\ pc = "post"
    /\ bidx <= Len(Unwrap(opts).body)
    /\ body' = insert(body, Unwrap(opts).body[bidx].k, Unwrap(opts).body[bidx].v)
    /\ bidx' = bidx + 1
    /\ UNCHANGED <<pc, argv, opts, client, requests, resp, hidx, mime, text, out, exit, input, parsed>>

\* line 167
PostSend ==
    /\ pc = "post"
    /\ bidx > Len(Unwrap(opts).body)
    /\ Send("POST", Some(to_json(body)))
    /\ UNCHANGED <<argv, opts, client, body, bidx, hidx, mime, text, out, input, parsed>>

\* line 136
PrintStatus ==
    /\ pc = "print_status"
    /\ out' = Append(out, print_status(Unwrap(resp)))
    /\ pc' = print_resp_next("print_status")
    /\ UNCHANGED <<argv, opts, client, body, bidx, requests, resp, hidx, mime, text, exit, input, parsed>>

\* lines 117-119, one iteration: value.to_str().unwrap()
PrintHeader ==
    /\ pc = "print_headers"
    /\ hidx <= Len(Unwrap(resp).headers)
    /\ LET h == Unwrap(resp).headers[hidx]
       IN  IF to_str(h.value).ok
           THEN /\ out' = Append(out, [kind |-> "header", name |-> h.name, value |-> to_str(h.value).s])
                /\ hidx' = hidx + 1
                /\ UNCHANGED <<pc, exit>>
           ELSE /\ Terminate(PanicExitCode)
                /\ UNCHANGED <<out, hidx>>
    /\ UNCHANGED <<argv, opts, client, body, bidx, requests, resp, mime, text, input, parsed>>

\* line 120
PrintHeadersEnd ==
    /\ pc = "print_headers"
    /\ hidx > Len(Unwrap(resp).headers)
    /\ out' = Append(out, [kind |-> "blank"])
    /\ pc' = print_resp_next("print_headers")
    /\ UNCHANGED <<argv, opts, client, body, bidx, requests, resp, hidx, mime, text, exit, input, parsed>>

\* line 138
GetContentType ==
    /\ pc = "get_content_type"
    /\ LET c == get_content_type(Unwrap(resp))
       IN  IF c.panic
           THEN /\ Terminate(PanicExitCode)
                /\ UNCHANGED mime
           ELSE /\ mime' = c.mime
                /\ pc' = print_resp_next("get_content_type")
                /\ UNCHANGED exit
    /\ UNCHANGED <<argv, opts, client, body, bidx, requests, resp, hidx, text, out, input, parsed>>

\* line 139: resp.text().await?
ReadText ==
    /\ pc = "text"
    /\ IF Unwrap(resp).bodyOk
       THEN /\ text' = Some(Unwrap(resp).body)
            /\ pc' = print_resp_next("text")
            /\ UNCHANGED exit
       ELSE /\ Terminate(main_exit("Err"))
            /\ UNCHANGED text
    /\ UNCHANGED <<argv, opts, client, body, bidx, requests, resp, hidx, mime, out, input, parsed>>

\* line 140
PrintBody ==
    /\ pc = "print_body"
    /\ out' = Append(out, print_body(mime, Unwrap(text)))
    /\ pc' = print_resp_next("print_body")
    /\ UNCHANGED <<argv, opts, client, body, bidx, requests, resp, hidx, mime, text, exit, input, parsed>>

\* lines 141, 159/172, 209: Ok(()) all the way up
Return ==
    /\ pc = "return"
    /\ Terminate(main_exit("Ok"))
    /\ UNCHANGED <<argv, opts, client, body, bidx, requests, resp, hidx, mime, text, out, input, parsed>>

Next ==
    \/ ParseArgs
    \/ BuildClient
    \/ Dispatch
    \/ GetSend
    \/ PostInsert
    \/ PostSend
    \/ PrintStatus
    \/ PrintHeader
    \/ PrintHeadersEnd
    \/ GetContentType
    \/ ReadText
    \/ PrintBody
    \/ Return

Spec == Init /\ [][Next]_vars

\* ---------------------------------------------- parse_kv_pair on its own
KvChars == {"a", "b", "="}

InitKv ==
    /\ pc = "kv"
    /\ input \in StringsUpTo(KvChars, MaxLen)
    /\ parsed = None
    /\ argv = [sub |-> "", url |-> <<>>, body |-> <<>>]
    /\ ProgInit

ParseKv ==
    /\ pc = "kv"
    /\ parsed' = Some(parse_kv_pair(input))
    /\ pc' = "kv_done"
    /\ UNCHANGED <<progVars, input>>

NextKv == ParseKv

SpecKv == InitKv /\ [][NextKv]_vars

\* -------------------------------------------------- parse_url on its own
UrlChars == {"a", "A", "1", ".", ":"}

InitUrl ==
    /\ pc = "url"
    /\ input \in StringsUpTo(UrlChars, MaxLen)
    /\ parsed = None
    /\ argv = [sub |-> "", url |-> <<>>, body |-> <<>>]
    /\ ProgInit

ParseUrl ==
    /\ pc = "url"
    /\ parsed' = Some(parse_url(input))
    /\ pc' = "url_done"
    /\ UNCHANGED <<progVars, input>>

NextUrl == ParseUrl

SpecUrl == InitUrl /\ [][NextUrl]_vars

\* ================================================================ claims

\* ---- parse_kv_pair (SpecKv)
KeyText(s) == SubSeq(s, 1, FirstIndex(s, "=") - 1)
AfterFirstEq(s) == SubSeq(s, FirstIndex(s, "=") + 1, Len(s))
ValueText(s) ==
    IF Contains(AfterFirstEq(s), "=")
    THEN SubSeq(AfterFirstEq(s), 1, FirstIndex(AfterFirstEq(s), "=") - 1)
    ELSE AfterFirstEq(s)

\* C1: parse_kv_pair succeeds on every string that contains at least one
\* '=' and fails with the "Failed to parse" error on every string that
\* contains none, the empty string included.
C1_SucceedsIffHasEquals ==
    IsSome(parsed) =>
        /\ Contains(input, "=") => Unwrap(parsed).ok
        /\ ~Contains(input, "=") => (~Unwrap(parsed).ok /\ Unwrap(parsed).err = "Failed to parse")

C1_Witness ==
    /\ pc = "kv_done"
    /\ input = <<>>
    /\ ~Unwrap(parsed).ok

\* C2: for a token with at least one '=', the key is the text before the
\* first '=' and the value is the text between the first '=' and the second
\* '=' (or the end); what follows a second '=' is dropped, and an empty key
\* or value is accepted.
C2_KeyAndValue ==
    (IsSome(parsed) /\ Contains(input, "=")) =>
        /\ Unwrap(parsed).ok
        /\ Unwrap(parsed).k = KeyText(input)
        /\ Unwrap(parsed).v = ValueText(input)

C2_Witness ==
    /\ pc = "kv_done"
    /\ input = <<"a", "=", "b", "=", "a">>
    /\ Unwrap(parsed).k = <<"a">>
    /\ Unwrap(parsed).v = <<"b">>

\* ---- parse_url (SpecUrl)
HasScheme(s) ==
    \E i \in 2..Len(s) :
        /\ s[i] = ":"
        /\ IsAlpha(s[1])
        /\ \A j \in 1..(i - 1) : IsSchemeChar(s[j])

\* C7: parse_url returns its argument unchanged whenever the argument parses
\* as an absolute URL, fails whenever the argument has no scheme, and never
\* returns a string other than its argument.
C7_UrlUnchanged ==
    IsSome(parsed) =>
        /\ UrlParse(input).ok => (Unwrap(parsed).ok /\ Unwrap(parsed).url = input)
        /\ ~HasScheme(input) => ~Unwrap(parsed).ok
        /\ Unwrap(parsed).ok => Unwrap(parsed).url = input

C7_Witness ==
    /\ pc = "url_done"
    /\ input = <<"A", ":", "1">>
    /\ Unwrap(parsed).ok
    /\ Unwrap(parsed).url = input
    /\ UrlParse(input).url # input

\* ---- the program (Spec)
Exited == pc = "exit"
ParsedOk == IsSome(opts) /\ Unwrap(opts).tag = "Ok"
SendFailed == Len(requests) > 0 /\ resp = None

Keys(b) == {b[i].k : i \in 1..Len(b)}
LastValue(b, key) ==
    b[CHOOSE i \in 1..Len(b) : b[i].k = key /\ \A j \in (i + 1)..Len(b) : b[j].k # key].v

\* C3: the JSON body of the POST request is an object whose keys are the
\* distinct keys of args.body, each mapped to the value of the last pair
\* with that key, as a JSON string.
C3_LastWriteWins ==
    \A n \in 1..Len(requests) :
        requests[n].method = "POST" =>
            /\ IsSome(requests[n].json)
            /\ DOMAIN Unwrap(requests[n].json) = Keys(Unwrap(opts).body)
            /\ \A key \in Keys(Unwrap(opts).body) :
                  Unwrap(requests[n].json)[key] =
                      [type |-> "string", s |-> LastValue(Unwrap(opts).body, key)]

C3_Witness ==
    /\ Len(requests) = 1
    /\ requests[1].method = "POST"
    /\ Unwrap(opts).body = <<[k |-> <<"k">>, v |-> <<"1">>], [k |-> <<"k">>, v |-> <<"2">>]>>
    /\ Unwrap(requests[1].json) = [x \in {<<"k">>} |-> [type |-> "string", s |-> <<"2">>]]

AllHeadersText(r) == \A i \in 1..Len(r.headers) : r.headers[i].value.ascii
HasContentType(r) == \E i \in 1..Len(r.headers) : r.headers[i].name = "content-type"
ContentTypeText(r) == Unwrap(HeaderGet(r.headers, "content-type")).bytes
ContentTypeParses(r) == MimeParse(ContentTypeText(r)).ok

\* the rendering the Content-Type header calls for
ClaimedRender(r) ==
    IF HasContentType(r) /\ ContentTypeParses(r)
          /\ MimeParse(ContentTypeText(r)).mime.essence = "application/json" THEN "json"
    ELSE IF HasContentType(r) /\ ContentTypeParses(r)
          /\ MimeParse(ContentTypeText(r)).mime.essence = "text/html" THEN "html"
    ELSE "plain"

\* C4: once the headers are printed and the body is read, the body is
\* rendered as the Content-Type header calls for: JSON highlighting for
\* application/json, HTML highlighting for text/html, plain text for any
\* other, absent or unparseable type, and the run does not fail.
C4_BodyRendering ==
    (Exited /\ IsSome(resp) /\ AllHeadersText(Unwrap(resp)) /\ Unwrap(resp).bodyOk) =>
        /\ exit = 0
        /\ Len(out) > 0
        /\ out[Len(out)].kind = "body"
        /\ out[Len(out)].render = ClaimedRender(Unwrap(resp))

\* C5: when send() fails with a transport error the process exits non-zero
\* and nothing of the response is printed.
C5_TransportFailure ==
    SendFailed =>
        /\ Exited
        /\ exit # 0
        /\ exit # Running
        /\ out = <<>>

C5_Witness ==
    /\ SendFailed
    /\ Exited
    /\ requests[1].method = "GET"
    /\ exit = 1

FullResponsePrinted ==
    /\ IsSome(resp)
    /\ Len(out) = Len(Unwrap(resp).headers) + 3
    /\ out[1].kind = "status"
    /\ \A i \in 1..Len(Unwrap(resp).headers) :
          /\ out[i + 1].kind = "header"
          /\ out[i + 1].name = Unwrap(resp).headers[i].name
    /\ out[Len(out) - 1].kind = "blank"
    /\ out[Len(out)].kind = "body"

UrlValidationFails == argv.sub \in {"get", "post"} /\ ~UrlParse(argv.url).ok
KvValidationFails ==
    argv.sub = "post" /\ \E i \in 1..Len(argv.body) : ~Contains(argv.body[i], "=")
ArgParsingFails == IsSome(opts) /\ Unwrap(opts).tag = "Err"
HeaderDecodeFails == IsSome(resp) /\ ~AllHeadersText(Unwrap(resp))
ContentTypeDecodeFails ==
    IsSome(resp) /\ HasContentType(Unwrap(resp)) /\ ~ContentTypeParses(Unwrap(resp))
BodyReadFails == IsSome(resp) /\ ~Unwrap(resp).bodyOk
SomeStageFails ==
    \/ UrlValidationFails
    \/ KvValidationFails
    \/ ArgParsingFails
    \/ SendFailed
    \/ HeaderDecodeFails
    \/ ContentTypeDecodeFails
    \/ BodyReadFails
DisplayOnly == IsSome(opts) /\ Unwrap(opts).tag = "Display"

\* C6 as stated: the exit status is non-zero whenever a stage fails and is
\* zero exactly when the full response has been printed.
C6_ExitZeroIffPrinted ==
    Exited =>
        /\ SomeStageFails => exit # 0
        /\ exit = 0 <=> FullResponsePrinted

\* C6 as amended: the exit status is non-zero whenever a stage fails, and
\* is zero exactly when the full response has been printed or the command
\* line asked for the help or version text, which is printed without any
\* request.
C6_ExitZeroIffPrintedOrDisplay ==
    Exited =>
        /\ SomeStageFails => exit # 0
        /\ exit = 0 <=> (FullResponsePrinted \/ DisplayOnly)
        /\ DisplayOnly => (requests = <<>> /\ ~FullResponsePrinted)

C6_Witness ==
    /\ Exited
    /\ exit = 0
    /\ FullResponsePrinted
    /\ Len(Unwrap(resp).headers) = MaxHeaders

\* C8: the status line comes first, every header line comes before the
\* blank line that ends the headers, and the body comes after it; when a
\* later stage fails, the status line is already printed and no body is.
C8_RenderOrder ==
    /\ \A i \in 1..Len(out) :
          /\ out[i].kind = "status" => i = 1
          /\ out[i].kind = "header" => (i > 1 /\ out[1].kind = "status" /\ i <= Len(Unwrap(resp).headers) + 1)
          /\ out[i].kind = "blank" => (out[1].kind = "status" /\ i = Len(Unwrap(resp).headers) + 2)
          /\ out[i].kind = "body" =>
                /\ i = Len(Unwrap(resp).headers) + 3
                /\ out[1].kind = "status"
                /\ out[i - 1].kind = "blank"
                /\ \A j \in 2..(i - 2) : out[j].kind = "header"
    /\ (Exited /\ (HeaderDecodeFails \/ ContentTypeDecodeFails \/ BodyReadFails)) =>
          /\ Len(out) >= 1
          /\ out[1].kind = "status"
          /\ \A i \in 1..Len(out) : out[i].kind # "body"

C8_Witness ==
    /\ Exited
    /\ exit = PanicExitCode
    /\ Len(out) = 2
    /\ out[1].kind = "status"
    /\ out[2].kind = "header"
    /\ ~Unwrap(resp).headers[2].value.ascii

ExpectedMethod == IF Unwrap(opts).subcmd = "Get" THEN "GET" ELSE "POST"
StatusLines == {i \in 1..Len(out) : out[i].kind = "status"}
RequestAsDispatched ==
    \A n \in 1..Len(requests) :
        /\ requests[n].method = ExpectedMethod
        /\ requests[n].url = Unwrap(opts).url
        /\ (requests[n].method = "GET") = (requests[n].json = None)
FormatterOnceOnResponse ==
    /\ Cardinality(StatusLines) <= 1
    /\ StatusLines # {} => (IsSome(resp) /\ Len(requests) = 1 /\ out[1].code = Unwrap(resp).status)

\* C9 as stated: every invocation that passes argument parsing issues
\* exactly one request, a GET for Get and a POST for Post, and formats at
\* most once.
C9_ExactlyOneRequest ==
    /\ Len(requests) <= 1
    /\ RequestAsDispatched
    /\ FormatterOnceOnResponse
    /\ (Exited /\ ParsedOk) => Len(requests) = 1

\* C9 as amended: every invocation issues at most one request, a GET
\* without body for Get and a POST for Post; it issues exactly one when
\* argument parsing passed and the client was built, and none when
\* Client::builder().build() fails; the formatter runs at most once, on the
\* response of that request.
C9_OneRequestOnceClientBuilt ==
    /\ Len(requests) <= 1
    /\ RequestAsDispatched
    /\ FormatterOnceOnResponse
    /\ (Exited /\ ParsedOk /\ IsSome(client)) => Len(requests) = 1
    /\ (Exited /\ ParsedOk /\ ~IsSome(client)) => (requests = <<>> /\ exit # 0)

C9_Witness ==
    /\ Exited
    /\ exit = 0
    /\ Len(requests) = 1
    /\ requests[1].method = "POST"
    /\ Unwrap(opts).subcmd = "Post"
    /\ Cardinality(StatusLines) = 1

FormattingSucceeds(r) ==
    /\ AllHeadersText(r)
    /\ HasContentType(r) => ContentTypeParses(r)
    /\ r.bodyOk
IsErrorStatus(st) == st >= 400 /\ st <= 599
\* what follows the status line, a function of headers and body alone
AfterStatusLine(r) ==
    [i \in 1..Len(r.headers) |->
        [kind |-> "header", name |-> r.headers[i].name, value |-> r.headers[i].value.bytes]]
    \o <<[kind |-> "blank"]>>
    \o <<[kind |-> "body", render |-> print_body(get_content_type(r).mime, r.body).render,
          text |-> r.body]>>

\* C10: a 4xx or 5xx response is not an error: its status line is printed
\* in red without the protocol version and without the blank line, then
\* headers and body are rendered as for any other status and the process
\* exits zero.
C10_ErrorStatusNotAnError ==
    /\ (IsSome(resp) /\ IsErrorStatus(Unwrap(resp).status) /\ Len(out) >= 1) =>
          out[1] = [kind |-> "status", color |-> "red", version |-> FALSE,
                    code |-> Unwrap(resp).status, blank |-> FALSE]
    /\ (IsSome(resp) /\ Exited) =>
          /\ exit = 0 <=> FormattingSucceeds(Unwrap(resp))
          /\ exit = 0 => Tail(out) = AfterStatusLine(Unwrap(resp))

C10_Witness ==
    /\ Exited
    /\ exit = 0
    /\ IsSome(resp)
    /\ Unwrap(resp).status = 500
    /\ out[1].color = "red"
    /\ ~out[1].version
    /\ out[Len(out)].kind = "body"

====
